---- MODULE Spec2Model ----
(***************************************************************************)
(* Model of zMidiController (MidiConsoleApplication.cpp): the joystick     *)
(* hot-plug handling, the per-button configuration vector, the             *)
(* configuration table of the UI and the MIDI bytes sent for button        *)
(* presses and releases.                                                   *)
(***************************************************************************)
EXTENDS Integers, Sequences, FiniteSets, TLC

(* ------------------------------ bounds -------------------------------- *)

\* Joystick instance ids the input layer may report: 1..MaxDev.
MaxDev == 2
\* Largest button index a button event may carry (the field is a Uint8).
MaxButtonId == 2
\* Length of the log of messages handed to RtMidiOut::sendMessage.
MaxSent == 1
\* Largest index of a MIDI output port (getPortCount() - 1).
MaxPortId == 1

(* ----------------------------- constants ------------------------------ *)

\* enum ButtonFunction { NOTE, CC }
NOTE == 0
CC == 1
\* static SDL_Joystick* joystick = NULL
NULL == 0
\* message.push_back(90) in the BUTTON_DOWN branch
Velocity == 90
\* midi_out after closePort(), or after an openPort() that threw
NoPort == -1

Devices == 1..MaxDev
PortIds == 0..MaxPortId
ButtonIds == 0..MaxButtonId

\* SDL_GetNumJoystickButtons of an opened joystick: the devices with an odd
\* id have two buttons, those with an even id have one.
NumButtons(d) == 1 + (d % 2)

\* struct JoystickStatus with its default member initialisers.
DefaultStatus == [func |-> NOTE, channel |-> 0, value |-> 0]

\* A value the user drags the "##Chnl" slider (1..16) to.
ChnlSliderInputs == {4}
\* A value the user drags the "##Val" slider (0..127) to.
ValSliderInputs == {20}

\* Values typed into the sliders (CTRL+Click turns a slider into an input
\* box): SliderInt is called without ImGuiSliderFlags_AlwaysClamp, so a typed
\* value outside the slider's range is stored as it is.
ChnlKeyboardInputs == {17}
ValKeyboardInputs == {128}

\* What joystick_conf[button_id] may yield when button_id is past the end of
\* the vector (undefined behaviour: whatever bytes lie there).
GarbageStatus ==
    { [func |-> NOTE, channel |-> 0, value |-> 0],
      [func |-> 2, channel |-> -1, value |-> 300] }

VARIABLES
    joystick,       \* static SDL_Joystick* joystick: NULL or the open device
    joystick_conf,  \* static std::vector<JoystickStatus> joystick_conf
    sdl_open,       \* joysticks opened by SDL_OpenJoystick and not yet closed
    sent,           \* messages handed to midi_out->sendMessage, in order
    ev,             \* the notification handled last and what became of it
    pc,             \* "run", "quit" (SDL_EVENT_QUIT) or "crashed"
    selected_port_id,  \* static unsigned int selected_port_id of midi_config_ui
    open_port       \* the port midi_out has open, NoPort when it has none

vars == <<joystick, joystick_conf, sdl_open, sent, ev, pc,
          selected_port_id, open_port>>

\* The state of the MIDI output: untouched by the joystick handling.
midi == <<selected_port_id, open_port>>

(* --------------------------- pure functions --------------------------- *)

\* Conversion of an int to unsigned char (vector<unsigned char>::push_back).
Byte(x) == x % 256

\* button_function_val without its release branch.
button_function_val_NoRelease(bf, release) ==
    CASE bf = NOTE -> 144
      [] bf = CC -> 176
      [] OTHER -> 0

\* const unsigned char button_function_val(ButtonFunction bf, bool release)
button_function_val(bf, release) ==
    CASE bf = NOTE -> (IF release THEN 128 ELSE 144)
      [] bf = CC -> 176
      [] OTHER -> 0

\* A press that pushes the velocity for NOTE only.
PressMessage_VelocityNoteOnly(js) ==
    LET type_chn == button_function_val(js.func, FALSE) + js.channel
    IN  IF js.func = NOTE
        THEN <<Byte(type_chn), Byte(js.value), Velocity>>
        ELSE <<Byte(type_chn), Byte(js.value)>>

\* The message built in the SDL_EVENT_JOYSTICK_BUTTON_DOWN branch.
PressMessage(js) ==
    LET type_chn == button_function_val(js.func, FALSE) + js.channel
    IN  <<Byte(type_chn), Byte(js.value), Velocity>>

\* A release with the commented-out push_back(90) put back.
ReleaseMessage_WithVelocity(js) ==
    LET type_chn == button_function_val(js.func, TRUE) + js.channel
    IN  <<Byte(type_chn), Byte(js.value), Velocity>>

\* The message built in the SDL_EVENT_JOYSTICK_BUTTON_UP branch.
ReleaseMessage(js) ==
    LET type_chn == button_function_val(js.func, TRUE) + js.channel
    IN  <<Byte(type_chn), Byte(js.value)>>

\* SDL_OpenJoystick(which): the handle, or NULL when the open fails.
SDL_OpenJoystick(which, open_ok) == IF open_ok THEN which ELSE NULL

\* SDL_GetNumJoystickButtons(joystick): -1 for an invalid (NULL) joystick.
SDL_GetNumJoystickButtons(j) == IF j = NULL THEN -1 ELSE NumButtons(j)

\* A read that takes the entry of button 0 whatever the button.
ReadConf_First(button_id) ==
    IF button_id < Len(joystick_conf)
    THEN {joystick_conf[1]}
    ELSE GarbageStatus

\* joystick_conf[button_id]: the entry, or anything at all past the end.
ReadConf(button_id) ==
    IF button_id < Len(joystick_conf)
    THEN {joystick_conf[button_id + 1]}
    ELSE GarbageStatus

Event(t, a, r) == [type |-> t, arg |-> a, res |-> r]

(* ------------------------------- Init --------------------------------- *)

Init ==
    /\ joystick = NULL
    /\ joystick_conf = <<>>
    /\ sdl_open = {}
    /\ sent = <<>>
    /\ ev = Event("INIT", 0, "none")
    /\ pc = "run"
    /\ selected_port_id = 0
    /\ open_port = 0

(* ---------------------- SDL_AppEvent, one branch each ------------------ *)

\* The push_back loop running once too often (i <= button_count).
PushDefaults_OffByOne(conf, button_count) ==
    conf \o [i \in 1..(button_count + 1) |-> DefaultStatus]

\* The store after the push_back loop of the JOYSTICK_ADDED branch.
PushDefaults(conf, button_count) ==
    conf \o [i \in 1..button_count |-> DefaultStatus]

\* The JOYSTICK_ADDED branch without its test joystick == NULL.
JoystickAdded_NoGuard(which, open_ok) ==
    /\ pc = "run"
    /\ LET j == SDL_OpenJoystick(which, open_ok)
           button_count == SDL_GetNumJoystickButtons(j)
       IN  /\ joystick' = j
           /\ joystick_conf' = PushDefaults(joystick_conf, button_count)
           /\ sdl_open' = IF j = NULL THEN sdl_open ELSE sdl_open \cup {j}
           /\ ev' = Event("ADDED", which,
                          IF j = NULL THEN "open_failed" ELSE "opened")
    /\ UNCHANGED <<sent, pc, midi>>

\* The JOYSTICK_ADDED branch sizing the store from the device of the event
\* whether or not the open succeeded.
JoystickAdded_SizeFromEvent(which, open_ok) ==
    /\ pc = "run"
    /\ IF joystick = NULL
       THEN LET j == SDL_OpenJoystick(which, open_ok)
            IN  /\ joystick' = j
                /\ joystick_conf' = PushDefaults(joystick_conf, NumButtons(which))
                /\ sdl_open' = IF j = NULL THEN sdl_open ELSE sdl_open \cup {j}
                /\ ev' = Event("ADDED", which,
                               IF j = NULL THEN "open_failed" ELSE "opened")
       ELSE /\ UNCHANGED <<joystick, joystick_conf, sdl_open>>
            /\ ev' = Event("ADDED", which, "ignored")
    /\ UNCHANGED <<sent, pc, midi>>

\* event->type == SDL_EVENT_JOYSTICK_ADDED
JoystickAdded(which, open_ok) ==
    /\ pc = "run"
    /\ IF joystick = NULL
       THEN LET j == SDL_OpenJoystick(which, open_ok)
                button_count == SDL_GetNumJoystickButtons(j)
            IN  /\ joystick' = j
                /\ joystick_conf' = PushDefaults(joystick_conf, button_count)
                /\ sdl_open' = IF j = NULL THEN sdl_open ELSE sdl_open \cup {j}
                /\ ev' = Event("ADDED", which,
                               IF j = NULL THEN "open_failed" ELSE "opened")
       ELSE /\ UNCHANGED <<joystick, joystick_conf, sdl_open>>
            /\ ev' = Event("ADDED", which, "ignored")
    /\ UNCHANGED <<sent, pc, midi>>

\* The JOYSTICK_REMOVED branch without the comparison of the ids.
JoystickRemoved_AnyId(which) ==
    /\ pc = "run"
    /\ IF joystick # NULL
       THEN /\ sdl_open' = sdl_open \ {joystick}
            /\ joystick' = NULL
            /\ joystick_conf' = <<>>
            /\ ev' = Event("REMOVED", which, "closed")
       ELSE /\ UNCHANGED <<joystick, joystick_conf, sdl_open>>
            /\ ev' = Event("REMOVED", which, "ignored")
    /\ UNCHANGED <<sent, pc, midi>>

\* The JOYSTICK_REMOVED branch without joystick_conf.clear().
JoystickRemoved_NoClear(which) ==
    /\ pc = "run"
    /\ IF joystick # NULL /\ joystick = which
       THEN /\ sdl_open' = sdl_open \ {joystick}
            /\ joystick' = NULL
            /\ joystick_conf' = joystick_conf
            /\ ev' = Event("REMOVED", which, "closed")
       ELSE /\ UNCHANGED <<joystick, joystick_conf, sdl_open>>
            /\ ev' = Event("REMOVED", which, "ignored")
    /\ UNCHANGED <<sent, pc, midi>>

\* The JOYSTICK_REMOVED branch closing the MIDI port with the joystick.
JoystickRemoved_ClosesPort(which) ==
    /\ pc = "run"
    /\ IF joystick # NULL /\ joystick = which
       THEN /\ sdl_open' = sdl_open \ {joystick}
            /\ joystick' = NULL
            /\ joystick_conf' = <<>>
            /\ open_port' = NoPort
            /\ ev' = Event("REMOVED", which, "closed")
       ELSE /\ UNCHANGED <<joystick, joystick_conf, sdl_open, open_port>>
            /\ ev' = Event("REMOVED", which, "ignored")
    /\ UNCHANGED <<sent, pc, selected_port_id>>

\* event->type == SDL_EVENT_JOYSTICK_REMOVED
JoystickRemoved(which) ==
    /\ pc = "run"
    /\ IF joystick # NULL /\ joystick = which
       THEN /\ sdl_open' = sdl_open \ {joystick}
            /\ joystick' = NULL
            /\ joystick_conf' = <<>>
            /\ ev' = Event("REMOVED", which, "closed")
       ELSE /\ UNCHANGED <<joystick, joystick_conf, sdl_open>>
            /\ ev' = Event("REMOVED", which, "ignored")
    /\ UNCHANGED <<sent, pc, midi>>

\* The BUTTON_DOWN branch putting its message in front of the earlier ones.
ButtonDownUpTo_Prepends(button_id, limit) ==
    /\ pc = "run"
    /\ Len(sent) < limit
    /\ \/ \E js \in ReadConf(button_id) :
            /\ sent' = <<PressMessage(js)>> \o sent
            /\ ev' = Event("BUTTON_DOWN", button_id, "sent")
            /\ pc' = pc
       \/ /\ button_id >= Len(joystick_conf)
          /\ sent' = sent
          /\ ev' = Event("BUTTON_DOWN", button_id, "crashed")
          /\ pc' = "crashed"
    /\ UNCHANGED <<joystick, joystick_conf, sdl_open, midi>>

\* event->type == SDL_EVENT_JOYSTICK_BUTTON_DOWN: no test of button_id
\* against the size of joystick_conf precedes the reads. The log of the
\* model holds at most limit messages.
ButtonDownUpTo(button_id, limit) ==
    /\ pc = "run"
    /\ Len(sent) < limit
    /\ \/ \E js \in ReadConf(button_id) :
            /\ sent' = Append(sent, PressMessage(js))
            /\ ev' = Event("BUTTON_DOWN", button_id, "sent")
            /\ pc' = pc
       \/ /\ button_id >= Len(joystick_conf)
          /\ sent' = sent
          /\ ev' = Event("BUTTON_DOWN", button_id, "crashed")
          /\ pc' = "crashed"
    /\ UNCHANGED <<joystick, joystick_conf, sdl_open, midi>>

ButtonDown(button_id) == ButtonDownUpTo(button_id, MaxSent)

\* The BUTTON_UP branch growing the store up to the button it is asked for
\* (a resize before the read).
ButtonUpUpTo_GrowsStore(button_id, limit) ==
    /\ pc = "run"
    /\ Len(sent) < limit
    /\ joystick_conf' =
          PushDefaults(joystick_conf, button_id + 1 - Len(joystick_conf))
    /\ sent' = Append(sent, ReleaseMessage(joystick_conf'[button_id + 1]))
    /\ ev' = Event("BUTTON_UP", button_id, "sent")
    /\ UNCHANGED <<joystick, sdl_open, pc, midi>>

\* The BUTTON_UP branch sending nothing for a CC button.
ButtonUpUpTo_IgnoresCC(button_id, limit) ==
    /\ pc = "run"
    /\ Len(sent) < limit
    /\ \/ \E js \in ReadConf(button_id) :
            /\ sent' = IF js.func = CC THEN sent
                       ELSE Append(sent, ReleaseMessage(js))
            /\ ev' = Event("BUTTON_UP", button_id, "sent")
            /\ pc' = pc
       \/ /\ button_id >= Len(joystick_conf)
          /\ sent' = sent
          /\ ev' = Event("BUTTON_UP", button_id, "crashed")
          /\ pc' = "crashed"
    /\ UNCHANGED <<joystick, joystick_conf, sdl_open, midi>>

\* event->type == SDL_EVENT_JOYSTICK_BUTTON_UP. The log of the model holds at
\* most limit messages.
ButtonUpUpTo(button_id, limit) ==
    /\ pc = "run"
    /\ Len(sent) < limit
    /\ \/ \E js \in ReadConf(button_id) :
            /\ sent' = Append(sent, ReleaseMessage(js))
            /\ ev' = Event("BUTTON_UP", button_id, "sent")
            /\ pc' = pc
       \/ /\ button_id >= Len(joystick_conf)
          /\ sent' = sent
          /\ ev' = Event("BUTTON_UP", button_id, "crashed")
          /\ pc' = "crashed"
    /\ UNCHANGED <<joystick, joystick_conf, sdl_open, midi>>

ButtonUp(button_id) == ButtonUpUpTo(button_id, MaxSent)

\* The BUTTON_DOWN branch when the transport rejects the message: sendMessage
\* either reports a warning and returns, or throws RtMidiError, which no
\* try block around the call catches, so the program terminates.
ButtonDownRejected(button_id, throws) ==
    /\ pc = "run"
    /\ Len(sent) < MaxSent
    /\ \E js \in ReadConf(button_id) :
          sent' = Append(sent, PressMessage(js))
    /\ ev' = Event("BUTTON_DOWN", button_id,
                   IF throws THEN "threw" ELSE "rejected")
    /\ pc' = IF throws THEN "crashed" ELSE pc
    /\ UNCHANGED <<joystick, joystick_conf, sdl_open, midi>>

\* The BUTTON_UP branch when the transport rejects the message.
ButtonUpRejected(button_id, throws) ==
    /\ pc = "run"
    /\ Len(sent) < MaxSent
    /\ \E js \in ReadConf(button_id) :
          sent' = Append(sent, ReleaseMessage(js))
    /\ ev' = Event("BUTTON_UP", button_id,
                   IF throws THEN "threw" ELSE "rejected")
    /\ pc' = IF throws THEN "crashed" ELSE pc
    /\ UNCHANGED <<joystick, joystick_conf, sdl_open, midi>>

\* event->type == SDL_EVENT_QUIT, then SDL_AppQuit: the joystick is closed,
\* the pointer is left as it is; delete midi_out closes the port.
Quit ==
    /\ pc = "run"
    /\ pc' = "quit"
    /\ sdl_open' = IF joystick # NULL THEN sdl_open \ {joystick} ELSE sdl_open
    /\ open_port' = NoPort
    /\ ev' = Event("QUIT", 0, "none")
    /\ UNCHANGED <<joystick, joystick_conf, sent, selected_port_id>>

(* ------------------- joystick_config_ui, one widget each --------------- *)

\* joy_conf[btn] with one member replaced; past the end it is a wild write.
EditConf(btn, member, val) ==
    /\ pc = "run"
    /\ joystick # NULL
    /\ btn < SDL_GetNumJoystickButtons(joystick)
    /\ IF btn < Len(joystick_conf)
       THEN /\ joystick_conf' =
                  [joystick_conf EXCEPT ![btn + 1] =
                      [f \in DOMAIN @ |-> IF f = member THEN val ELSE @[f]]]
            /\ pc' = pc
       ELSE /\ joystick_conf' = joystick_conf
            /\ pc' = "crashed"
    /\ ev' = Event("UI", btn, member)
    /\ UNCHANGED <<joystick, sdl_open, sent, midi>>

\* ImGui::Selectable in the "##Func" combo: joy_conf[btn].func = i
UiFunc(btn, i) == EditConf(btn, "func", i)

\* ImGui::SliderInt("##Chnl", &channel, 1, 16): joy_conf[btn].channel = channel - 1
UiChnl(btn, channel) == EditConf(btn, "channel", channel - 1)

\* ImGui::SliderInt("##Val", &joy_conf[btn].value, 0, 127)
UiVal(btn, value) == EditConf(btn, "value", value)

(* --------------------------- midi_config_ui ---------------------------- *)

\* ImGui::Selectable of port i in the "Port" combo: nothing when i is the
\* selected port; otherwise closePort(), then openPort(i), which may throw
\* (the exception is caught and printed).
MidiSelectPort(i, open_ok) ==
    /\ pc = "run"
    /\ IF i # selected_port_id
       THEN /\ selected_port_id' = i
            /\ open_port' = IF open_ok THEN i ELSE NoPort
       ELSE UNCHANGED midi
    /\ ev' = Event("MIDI_UI", i,
                   IF i = selected_port_id THEN "same"
                   ELSE IF open_ok THEN "opened" ELSE "open_failed")
    /\ UNCHANGED <<joystick, joystick_conf, sdl_open, sent, pc>>

(* ------------------------------- Next --------------------------------- *)

Next ==
    \/ \E which \in Devices, open_ok \in BOOLEAN : JoystickAdded(which, open_ok)
    \/ \E which \in Devices : JoystickRemoved(which)
    \/ \E button_id \in ButtonIds : ButtonDown(button_id)
    \/ \E button_id \in ButtonIds : ButtonUp(button_id)
    \/ Quit
    \/ \E btn \in ButtonIds, i \in {NOTE, CC} : UiFunc(btn, i)
    \/ \E btn \in ButtonIds, channel \in ChnlSliderInputs : UiChnl(btn, channel)
    \/ \E btn \in ButtonIds, value \in ValSliderInputs : UiVal(btn, value)

Spec == Init /\ [][Next]_vars

(* ------------- the MIDI output: rejected sends, port selection --------- *)

\* The joystick handling with a transport that may reject a message and the
\* port combo of the UI; the entries of the store stay as attach made them.
NextPort ==
    \/ \E which \in Devices, open_ok \in BOOLEAN : JoystickAdded(which, open_ok)
    \/ \E which \in Devices : JoystickRemoved(which)
    \/ \E button_id \in ButtonIds : ButtonDown(button_id)
    \/ \E button_id \in ButtonIds : ButtonUp(button_id)
    \/ \E button_id \in ButtonIds, throws \in BOOLEAN :
          ButtonDownRejected(button_id, throws)
    \/ \E button_id \in ButtonIds, throws \in BOOLEAN :
          ButtonUpRejected(button_id, throws)
    \/ \E i \in PortIds, open_ok \in BOOLEAN : MidiSelectPort(i, open_ok)
    \/ Quit

PortSpec == Init /\ [][NextPort]_vars

(* --------------------- values typed into the sliders ------------------- *)

NextKey ==
    \/ Next
    \/ \E btn \in ButtonIds, channel \in ChnlKeyboardInputs : UiChnl(btn, channel)
    \/ \E btn \in ButtonIds, value \in ValKeyboardInputs : UiVal(btn, value)

KeySpec == Init /\ [][NextKey]_vars

(* -------------------- the order of the messages sent ------------------- *)

\* One message more than MaxSent, so that two messages can follow each other.
OrderLimit == MaxSent + 1

\* The joystick handling with the "##Func" combo as the only edit.
NextOrder ==
    \/ \E which \in Devices, open_ok \in BOOLEAN : JoystickAdded(which, open_ok)
    \/ \E which \in Devices : JoystickRemoved(which)
    \/ \E button_id \in ButtonIds : ButtonDownUpTo(button_id, OrderLimit)
    \/ \E button_id \in ButtonIds : ButtonUpUpTo(button_id, OrderLimit)
    \/ \E btn \in ButtonIds, i \in {NOTE, CC} : UiFunc(btn, i)
    \/ Quit

OrderSpec == Init /\ [][NextOrder]_vars

(* ---------------- the encoding over the whole input domain ------------- *)

\* Every JoystickStatus whose channel and value are in the ranges the
\* struct's comments give.
InRangeStatus == [func : {NOTE, CC}, channel : 0..15, value : 0..127]

\* A one-button joystick is open and its entry holds any in-range status.
InitEnc ==
    /\ joystick = 2
    /\ joystick_conf \in [1..NumButtons(2) -> InRangeStatus]
    /\ sdl_open = {2}
    /\ sent = <<>>
    /\ ev = Event("UI", 0, "value")
    /\ pc = "run"
    /\ selected_port_id = 0
    /\ open_port = 0

InBoundsIds == 0..(Len(joystick_conf) - 1)

NextEnc ==
    \/ \E button_id \in InBoundsIds : ButtonDown(button_id)
    \/ \E button_id \in InBoundsIds : ButtonUp(button_id)

EncSpec == InitEnc /\ [][NextEnc]_vars

(* ------------------------- helpers of the claims ----------------------- *)

RECURSIVE BitOr(_, _)
BitOr(a, b) ==
    IF a = 0 THEN b
    ELSE IF b = 0 THEN a
    ELSE (IF a % 2 = 1 \/ b % 2 = 1 THEN 1 ELSE 0) + 2 * BitOr(a \div 2, b \div 2)

RECURSIVE BitAnd(_, _)
BitAnd(a, b) ==
    IF a = 0 \/ b = 0 THEN 0
    ELSE (IF a % 2 = 1 /\ b % 2 = 1 THEN 1 ELSE 0) + 2 * BitAnd(a \div 2, b \div 2)

ButtonEvents == {"BUTTON_DOWN", "BUTTON_UP"}

\* The last notification was a press or release of a button the store has
\* an entry for, and its message went to the transport.
InBoundsSent ==
    /\ ev.type \in ButtonEvents
    /\ ev.res = "sent"
    /\ ev.arg < Len(joystick_conf)
    /\ Len(sent) > 0

\* The entry of the button the last notification named, and the message sent.
LastCfg == joystick_conf[ev.arg + 1]
LastMsg == sent[Len(sent)]
LastIsRelease == ev.type = "BUTTON_UP"

InRange(js) == js.channel \in 0..15 /\ js.value \in 0..127

\* base_status of the data model: 0x90, 0x80, 0xB0.
BaseStatus(func, release) ==
    IF func = NOTE THEN (IF release THEN 128 ELSE 144) ELSE 176

(* ------------------------------- claims -------------------------------- *)

\* C1 (as claimed): with a controller active, a press or release whose button
\* index is not below the length of the store (index n, store of length n) is
\* dropped: nothing is sent, the program goes on and the store and the active
\* controller are unchanged.
C1_OutOfRangeDropped ==
    [][ (pc = "run" /\ joystick # NULL
         /\ ev'.type \in ButtonEvents /\ ev'.arg >= Len(joystick_conf))
        => (sent' = sent /\ pc' = "run"
            /\ joystick' = joystick /\ joystick_conf' = joystick_conf) ]_vars

\* C3: for an in-range entry the status byte sent is base_status | channel,
\* base 0x90 for a NOTE press, 0x80 for a NOTE release, 0xB0 for CC; base +
\* channel equals base | channel, the low nibble is the channel and the high
\* nibble the base.
C3_StatusByte ==
    (InBoundsSent /\ InRange(LastCfg)) =>
        LET base == BaseStatus(LastCfg.func, LastIsRelease)
        IN  /\ LastMsg[1] = BitOr(base, LastCfg.channel)
            /\ base + LastCfg.channel = BitOr(base, LastCfg.channel)
            /\ BitAnd(LastMsg[1], 15) = LastCfg.channel
            /\ BitAnd(LastMsg[1], 240) = base

C3_Witness ==
    /\ InBoundsSent
    /\ LastIsRelease
    /\ LastCfg = [func |-> NOTE, channel |-> 15, value |-> 127]
    /\ LastMsg[1] = 143

\* C4: for an in-range NOTE entry a press sends exactly 3 bytes and a release
\* exactly 2; for every function and both directions the second byte is the
\* entry's value.
C4_LengthAndData1 ==
    (InBoundsSent /\ InRange(LastCfg)) =>
        /\ LastMsg[2] = LastCfg.value
        /\ (LastCfg.func = NOTE /\ ~LastIsRelease) => Len(LastMsg) = 3
        /\ (LastCfg.func = NOTE /\ LastIsRelease) => Len(LastMsg) = 2

C4_Witness ==
    /\ InBoundsSent
    /\ LastIsRelease
    /\ LastCfg = [func |-> NOTE, channel |-> 9, value |-> 60]
    /\ LastMsg = <<137, 60>>

\* C5 (as claimed): the third byte, 90, is present only in the message of a
\* NOTE press; a NOTE release and every CC message (press included) have
\* exactly the 2 bytes [status, data1].
C5_VelocityOnlyNotePress ==
    (InBoundsSent /\ InRange(LastCfg)) =>
        IF LastCfg.func = NOTE /\ ~LastIsRelease
        THEN Len(LastMsg) = 3 /\ LastMsg[3] = Velocity
        ELSE Len(LastMsg) = 2

\* C5 (amended): the third byte, 90, is present in the message of every
\* press, NOTE and CC alike, which has exactly 3 bytes; the message of every
\* release has exactly the 2 bytes [status, data1].
C5_VelocityOnEveryPress ==
    (InBoundsSent /\ InRange(LastCfg)) =>
        IF ~LastIsRelease
        THEN Len(LastMsg) = 3 /\ LastMsg[3] = Velocity
        ELSE Len(LastMsg) = 2

C5_Witness ==
    /\ InBoundsSent
    /\ ~LastIsRelease
    /\ LastCfg = [func |-> CC, channel |-> 3, value |-> 20]
    /\ LastMsg = <<179, 20, 90>>

\* C2: in every reachable state the length of the store is the button count
\* of the active controller, and zero when no controller is active.
C2_StoreLength ==
    Len(joystick_conf) = IF joystick = NULL THEN 0 ELSE NumButtons(joystick)

\* A two-button controller is active, one entry was edited, a message went
\* out and a second attach has just been ignored.
C2_Witness ==
    /\ joystick = 1
    /\ Len(joystick_conf) = 2
    /\ joystick_conf[2].func = CC
    /\ Len(sent) = 1
    /\ ev = Event("ADDED", 2, "ignored")

\* C6: an attach notification arriving while a controller is active changes
\* neither the active controller nor the store; at most one joystick is ever
\* open and the active id never goes from one device straight to another.
C6_FirstAttachedWins ==
    [][ /\ (pc = "run" /\ joystick # NULL /\ ev'.type = "ADDED")
            => (joystick' = joystick /\ joystick_conf' = joystick_conf
                /\ sdl_open' = sdl_open)
        /\ (joystick # NULL /\ joystick' # NULL) => joystick' = joystick
        /\ Cardinality(sdl_open') <= 1 ]_vars

\* An attach of the other device has just been ignored while device 1 is
\* active with an edited entry.
C6_Witness ==
    /\ ev = Event("ADDED", 2, "ignored")
    /\ joystick = 1
    /\ sdl_open = {1}
    /\ joystick_conf[1] = [func |-> CC, channel |-> 3, value |-> 20]

\* C7: a detach notification whose id is not the active controller's, or that
\* arrives with no controller active, changes nothing.
C7_ForeignDetachIgnored ==
    [][ (pc = "run" /\ ev'.type = "REMOVED"
         /\ (joystick = NULL \/ joystick # ev'.arg))
        => (joystick' = joystick /\ joystick_conf' = joystick_conf
            /\ sdl_open' = sdl_open /\ sent' = sent /\ pc' = pc) ]_vars

\* A detach of device 2 has just been handled while device 1 is active with
\* an edited entry.
C7_Witness ==
    /\ ev = Event("REMOVED", 2, "ignored")
    /\ joystick = 1
    /\ Len(joystick_conf) = 2
    /\ joystick_conf[2] = [func |-> CC, channel |-> 3, value |-> 20]

\* C8: right after a successful attach of a device with n buttons the store
\* has exactly n entries, each the default {NOTE, 0, 0}.
C8_AttachGivesDefaults ==
    (ev.type = "ADDED" /\ ev.res = "opened") =>
        /\ joystick = ev.arg
        /\ Len(joystick_conf) = NumButtons(ev.arg)
        /\ \A i \in 1..Len(joystick_conf) : joystick_conf[i] = DefaultStatus

\* A device has just been attached after an earlier controller, whose edited
\* entry (value 20) had been pressed, was detached.
C8_Witness ==
    /\ ev = Event("ADDED", 1, "opened")
    /\ sent = << <<144, 20, 90>> >>
    /\ joystick_conf = <<DefaultStatus, DefaultStatus>>

\* C9 (as claimed): a matching detach leaves the store empty and no
\* controller active, and a press or release that follows it is dropped:
\* nothing reaches the transport (and the program goes on).
C9_DroppedAfterDetach ==
    [][ /\ (ev'.type = "REMOVED" /\ ev'.res = "closed")
            => (joystick' = NULL /\ joystick_conf' = <<>>)
        /\ (pc = "run" /\ ev.type = "REMOVED" /\ ev.res = "closed"
            /\ ev'.type \in ButtonEvents)
            => (sent' = sent /\ pc' = "run") ]_vars

\* C10: an attach whose open fails, arriving with no controller active,
\* leaves no controller active and the store empty, closes nothing and does
\* not stop the program; an attach that follows it and whose open succeeds
\* makes its device the active controller.
C10_FailedOpen ==
    [][ /\ (pc = "run" /\ ev'.type = "ADDED" /\ ev'.res = "open_failed")
            => (joystick = NULL /\ joystick' = NULL
                /\ joystick_conf' = joystick_conf /\ joystick_conf' = <<>>
                /\ sdl_open' = sdl_open /\ pc' = "run")
        /\ \A which \in Devices :
              (ev.type = "ADDED" /\ ev.res = "open_failed"
               /\ JoystickAdded(which, TRUE))
              => (joystick' = which /\ sdl_open' = {which}
                  /\ Len(joystick_conf') = NumButtons(which)) ]_vars

\* The open of device 1 has just failed: no controller, empty store, nothing
\* open, the program running.
C10_Witness ==
    /\ ev = Event("ADDED", 1, "open_failed")
    /\ joystick = NULL
    /\ joystick_conf = <<>>
    /\ sdl_open = {}
    /\ pc = "run"

\* C11 (as claimed): when the transport rejects the message of a press or
\* release of a button the store has an entry for, the program goes on: the failure is not fatal, the message is
\* handed over once, and the active controller and the store are unchanged.
C11_RejectedSendNotFatal ==
    [][ (pc = "run" /\ ev'.type \in ButtonEvents
         /\ ev'.arg < Len(joystick_conf)
         /\ ev'.res \in {"rejected", "threw"})
        => (pc' = "run" /\ Len(sent') = Len(sent) + 1
            /\ joystick' = joystick /\ joystick_conf' = joystick_conf) ]_vars

\* C12: notifications are handled one at a time in arrival order: the
\* handling of a press or release of a button the store has an entry for puts
\* exactly one message, that of the entry, at the end of the sequence handed
\* to the transport; no step puts more than one message there, changes or
\* removes an earlier one, and no other kind of notification adds one.
C12_OneMessageInOrder ==
    [][ /\ (pc = "run" /\ ev'.type \in ButtonEvents
            /\ ev'.arg < Len(joystick_conf))
            => /\ Len(sent') = Len(sent) + 1
               /\ LET cfg == joystick_conf[ev'.arg + 1]
                      m == sent'[Len(sent')]
                  IN  /\ m[1] = BaseStatus(cfg.func, ev'.type = "BUTTON_UP")
                                + cfg.channel
                      /\ m[2] = cfg.value
        /\ ev'.type \notin ButtonEvents => sent' = sent
        /\ Len(sent') <= Len(sent) + 1
        /\ SubSeq(sent', 1, Len(sent)) = sent ]_vars

\* A press of button 0, configured CC, was followed by a release of button
\* 1, still NOTE: the two messages are in the log in that order.
C12_Witness ==
    /\ joystick = 1
    /\ joystick_conf[1].func = CC
    /\ joystick_conf[2].func = NOTE
    /\ ev = Event("BUTTON_UP", 1, "sent")
    /\ sent = << <<176, 0, 90>>, <<128, 0>> >>

\* C13: a press of a button the store has an entry for sends the message
\* built from that entry as it stands at the press, whatever the other
\* entries hold: status base + channel, data1 the value; for the entry
\* {CC, channel 3, value 20} the transport receives [0xB3, 20] or
\* [0xB3, 20, 90].
C13_PressUsesOwnEntry ==
    (InBoundsSent /\ ~LastIsRelease) =>
        /\ LastMsg[1] = BaseStatus(LastCfg.func, FALSE) + LastCfg.channel
        /\ LastMsg[2] = LastCfg.value
        /\ LastCfg = [func |-> CC, channel |-> 3, value |-> 20]
              => LastMsg \in { <<179, 20>>, <<179, 20, 90>> }

\* The second button of a two-button joystick was configured {CC, 3, 20},
\* the first left at its default, and the second was pressed.
C13_Witness ==
    /\ joystick = 1
    /\ joystick_conf = <<DefaultStatus, [func |-> CC, channel |-> 3, value |-> 20]>>
    /\ ev = Event("BUTTON_DOWN", 1, "sent")
    /\ sent = << <<179, 20, 90>> >>

\* C14 (as claimed): in every reachable state every entry of the store has
\* its channel in 0..15 and its value in 0..127.
C14_EntriesInRange ==
    \A i \in 1..Len(joystick_conf) : InRange(joystick_conf[i])

\* C17 (as claimed): every message handed to the transport, here the one of
\* a press or release of a button the store has an entry for, has 2 or 3
\* bytes, a first byte in 0x80..0xBF and every following byte in 0..127.
C17_WellFormed ==
    InBoundsSent =>
        /\ Len(LastMsg) \in {2, 3}
        /\ LastMsg[1] \in 128..191
        /\ \A n \in 2..Len(LastMsg) : LastMsg[n] \in 0..127

\* C15: the handling of a press or a release changes neither the active
\* controller nor the length or any entry of the store; the store changes
\* only in a step of the configuration UI, of an attach or of a detach.
C15_PressReleaseReadOnly ==
    [][ /\ (pc = "run" /\ ev'.type \in ButtonEvents)
            => (joystick' = joystick /\ joystick_conf' = joystick_conf
                /\ sdl_open' = sdl_open)
        /\ joystick_conf' # joystick_conf
            => ev'.type \in {"UI", "ADDED", "REMOVED"} ]_vars

\* The second button, configured {CC, 3, 20}, has just been released: the
\* store still holds the edit and the controller is still active.
C15_Witness ==
    /\ ev = Event("BUTTON_UP", 1, "sent")
    /\ joystick = 1
    /\ joystick_conf = <<DefaultStatus, [func |-> CC, channel |-> 3, value |-> 20]>>
    /\ sent = << <<179, 20>> >>

\* C16 (as claimed): the program starts with no controller, gets one only by
\* an attach whose open succeeds and loses it only by a detach of that
\* device; an attach whose open succeeds with no controller active always
\* makes its device the active one; and no step other than the quit the user
\* asks for takes the program to a state in which notifications are no
\* longer handled.
C16_NoTerminalState ==
    [][ /\ ev.type = "INIT" => joystick = NULL
        /\ (joystick = NULL /\ joystick' # NULL)
            => (ev' = Event("ADDED", joystick', "opened"))
        /\ (joystick # NULL /\ joystick' = NULL)
            => (ev' = Event("REMOVED", joystick, "closed"))
        /\ \A which \in Devices :
              (joystick = NULL /\ JoystickAdded(which, TRUE))
              => joystick' = which
        /\ pc' # "quit" => pc' = "run" ]_vars

\* C18: an attach or detach notification, accepted, ignored or failed, sends
\* nothing and leaves the MIDI port as it is; only a press or a release hands
\* a message to the transport, and while the program runs only the port
\* combo of the UI changes the selected or the open port (at shutdown
\* SDL_AppQuit deletes midi_out).
C18_AttachDetachLeaveMidi ==
    [][ /\ (pc = "run" /\ ev'.type \in {"ADDED", "REMOVED"})
            => (sent' = sent /\ midi' = midi)
        /\ sent' # sent => ev'.type \in ButtonEvents
        /\ (midi' # midi /\ ev'.type # "QUIT") => ev'.type = "MIDI_UI" ]_vars

\* The UI has moved the output to port 1, a message was sent, and a detach
\* of the active joystick has just been handled.
C18_Witness ==
    /\ ev = Event("REMOVED", 1, "closed")
    /\ selected_port_id = 1
    /\ open_port = 1
    /\ Len(sent) = 1

\* C19: the release of a button the store has an in-range CC entry for hands
\* exactly one message to the transport, the 2 bytes [0xB0 + channel, value],
\* which are the first two bytes of the message of a press of that button.
C19_CCReleaseSends ==
    [][ LET cfg == joystick_conf[ev'.arg + 1]
        IN  (pc = "run" /\ ev'.type = "BUTTON_UP"
             /\ ev'.arg < Len(joystick_conf)
             /\ cfg.func = CC /\ InRange(cfg))
            => /\ sent' = Append(sent, <<176 + cfg.channel, cfg.value>>)
               /\ sent'[Len(sent')] = SubSeq(PressMessage(cfg), 1, 2) ]_vars

C19_Witness ==
    /\ ev = Event("BUTTON_UP", 0, "sent")
    /\ joystick_conf = <<[func |-> CC, channel |-> 15, value |-> 127]>>
    /\ sent = << <<191, 127>> >>

====
